---- MODULE Spec2Model ----
(***************************************************************************)
(* The demo account system of the repository: the express API of           *)
(* server.js (users.json, bcrypt, JWT) and the browser-side mirror of      *)
(* login.js (localStorage only).  The two halves share no state; a         *)
(* behaviour exercises one of them, named by `tier`.                       *)
(*                                                                         *)
(* A JavaScript string is a sequence of tokens: one token per character    *)
(* where the code looks inside the string (names, emails, identifiers),    *)
(* one token for a whole literal where it only compares it (roles,         *)
(* messages).  The empty string is << >>.                                  *)
(***************************************************************************)
EXTENDS Integers, Sequences, FiniteSets, TLC

VARIABLES
  tier,        \* "server" or "browser": the half this behaviour exercises
  clock,       \* Date.now(), in ms since the start of the behaviour
  file,        \* users.json: the array of user records
  calls,       \* the in-flight and completed requests of the express app
  started,     \* number of requests received so far
  disk,        \* "ok", or "down" while fs calls on users.json throw
  localStorage,  \* the browser's localStorage: key -> stored string
  loginPage,   \* a login page is open (its DOMContentLoaded handler has run)
  editPages,   \* the open edit-profile pages, each with the `user` it parsed
  logoutShown, \* an open page's navbar shows the logout button
  tokenForged, \* the authToken entry was written by hand, not by a handler
  lastAlert    \* the alert() the last handler raised, "" if it raised none

serverVars == <<file, calls, started, disk>>
clientVars ==
  <<localStorage, loginPage, editPages, logoutShown, tokenForged, lastAlert>>

\* ------------------------------------------------------------------ bounds
MaxCalls == 2
MaxRequests == 2
MaxClock == 1
MaxEditPages == 1
MaxUsers == 2

Calls == 1..MaxCalls

\* ----------------------------------------------------------------- strings
Undefined == <<"undefined">>
Empty == << >>

EmailA == <<"a", "@", "x">>
EmailAUpper == <<"A", "@", "x">>
EmailAPadded == <<" ", "a", "@", "x">>
EmailB == <<"b", "@", "x">>
NameBob == <<"b", "o", "b">>
NameAdminCap == <<"A", "d", "m", "i", "n">>
NameAdminLower == <<"a", "d", "m", "i", "n">>
NameHartLower == <<"h", "a", "r", "t">>
Pw == <<"p", "w">>
PwBad == <<"n", "o">>

StandardMember == <<"Standard Member">>
Administrator == <<"Administrator">>

\* String.prototype.toLowerCase, character by character
LowerChar(ch) ==
  CASE ch = "A" -> "a"
    [] ch = "B" -> "b"
    [] ch = "H" -> "h"
    [] ch = "X" -> "x"
    [] OTHER -> ch

ToLowerCase(s) == [i \in DOMAIN s |-> LowerChar(s[i])]

\* String.prototype.trim
RECURSIVE TrimStart(_)
TrimStart(s) == IF s # << >> /\ Head(s) = " " THEN TrimStart(Tail(s)) ELSE s

RECURSIVE TrimEnd(_)
TrimEnd(s) ==
  IF s # << >> /\ s[Len(s)] = " " THEN TrimEnd(SubSeq(s, 1, Len(s) - 1)) ELSE s

Trim(s) == TrimEnd(TrimStart(s))

\* !x of a validation that lets the empty string through
FalsyAbsentOnly(x) == x = Undefined

\* !x for a value that is a string or undefined
Falsy(x) == x = Empty \/ x = Undefined

\* x || d
OrElse(x, d) == IF Falsy(x) THEN d ELSE x

\* a number as a JavaScript value (ids are numbers on both halves, except the
\* seeded account's id, which is a string)
Num(n) == <<"number", n>>

\* ------------------------------------------------------------------ server
Salts == {"s1"}
JWT_SECRET == <<"demo-secret-key-change-in-production">>

\* bcrypt.hash(password, salt): a one-way digest, determined by both arguments
BcryptHash(password, salt) ==
  <<"$2a$10$", salt, <<"digest", salt, password>>>>

\* bcrypt.compare(password, hash): false for a value that is no bcrypt hash
BcryptCompare(password, hash) ==
  /\ hash # Empty
  /\ hash # Undefined
  /\ BcryptHash(password, hash[2]) = hash

\* jwt.sign(payload, secret, { expiresIn: '7d' }): iat and exp are in seconds
JwtExpiresIn == 7 * 24 * 60 * 60

JwtSign(payload, secret, now) ==
  LET claims == [userId |-> payload.userId, email |-> payload.email,
                 iat |-> now \div 1000,
                 exp |-> (now \div 1000) + JwtExpiresIn]
  IN  [claims |-> claims, sig |-> <<"HS256", secret, claims>>]

\* `${now.getFullYear()}-${String(now.getMonth() + 1).padStart(2, '0')}`:
\* every instant the bounded clock reaches lies in the same calendar month
MemberSinceOf(now) == <<"YYYY-MM of the run">>

\* readUsers(): the parsed array, [] when readFileSync or JSON.parse throws
ReadUsers == IF disk = "ok" THEN file ELSE << >>

\* the node process is running: no call has brought it down
ServerUp == \A c \in DOMAIN calls : calls[c].pc # "crashed"

\* users.find(u => u.email && u.email.toLowerCase() === (email || '').toLowerCase())
ExistsEmail(users, email) ==
  \E i \in DOMAIN users :
    /\ ~Falsy(users[i].email)
    /\ ToLowerCase(users[i].email) = ToLowerCase(OrElse(email, Empty))

\* the user object of /api/register
NewUser(body, hash, now) ==
  [id |-> Num(now),
   fullName |-> body.fullName,
   email |-> body.email,
   phone |-> OrElse(body.phone, Empty),
   location |-> OrElse(body.location, Empty),
   role |-> OrElse(body.role, StandardMember),
   avatarUrl |-> OrElse(body.avatarUrl, Empty),
   memberSince |-> MemberSinceOf(now),
   passwordHash |-> hash]

\* a publicUser that passes the stored record on unstripped
PublicUserWhole(user) == user

\* publicUser of /api/register and /api/login
PublicUser(user) ==
  [id |-> user.id, fullName |-> user.fullName, email |-> user.email,
   phone |-> user.phone, location |-> user.location, role |-> user.role,
   avatarUrl |-> user.avatarUrl, memberSince |-> user.memberSince]

ErrorResponse(status, message) ==
  [status |-> status, success |-> FALSE, message |-> message]

OkResponse(user, now) ==
  [status |-> 200, success |-> TRUE, user |-> PublicUser(user),
   token |-> JwtSign([userId |-> user.id, email |-> user.email], JWT_SECRET, now)]

NoBody == [none |-> TRUE]
NoUser == [none |-> TRUE]
NoResponse == [status |-> 0]

IdleCall ==
  [n |-> 0, op |-> "none", pc |-> "idle", body |-> NoBody, users |-> << >>,
   salt |-> "", user |-> NoUser, resp |-> NoResponse]

Finished(call, n, op, body, resp) ==
  [n |-> n, op |-> op, pc |-> "done", body |-> body, users |-> << >>,
   salt |-> "", user |-> NoUser, resp |-> resp]

\* writeUsers throws inside the async handler and nothing catches it: the
\* promise rejects.  What follows depends on the express and node versions the
\* app is run with, which the repository does not pin: the request is never
\* answered ("rejected"), the process exits on the unhandled rejection
\* ("crashed"), or the router forwards the rejection to the default error
\* handler, which answers 500 with an error page ("done").
WriteFailures == {"rejected", "crashed", "done"}

Thrown(call, outcome) ==
  [call EXCEPT !.pc = outcome, !.users = << >>, !.salt = "",
               !.resp = IF outcome = "done"
                        THEN [status |-> 500, text |-> <<"error page">>]
                        ELSE NoResponse]

\* a request body of /api/register; phone, location and avatarUrl are absent
RegisterBody(fullName, email, role, password) ==
  [fullName |-> fullName, email |-> email, phone |-> Undefined,
   location |-> Undefined, role |-> role, avatarUrl |-> Undefined,
   password |-> password]

RegisterBodies ==
  {RegisterBody(NameBob, EmailA, Undefined, Pw),
   RegisterBody(NameBob, EmailAUpper, Administrator, Pw),
   RegisterBody(NameBob, EmailAPadded, Undefined, Pw),
   RegisterBody(NameAdminCap, EmailB, Administrator, Pw),
   RegisterBody(Empty, EmailA, Undefined, Pw),
   RegisterBody(NameBob, Undefined, Undefined, Pw),
   RegisterBody(NameBob, EmailA, Undefined, Empty)}

LoginBody(username, password) == [username |-> username, password |-> password]

LoginBodies ==
  {LoginBody(EmailAUpper, Pw),
   LoginBody(EmailA, PwBad),
   LoginBody(EmailB, Pw),
   LoginBody(NameBob, Pw),
   LoginBody(Undefined, Pw),
   LoginBody(EmailA, Empty)}

CanReceive(c) ==
  /\ tier = "server"
  /\ ServerUp
  /\ calls[c].pc \in {"idle", "done"}
  /\ started < MaxRequests

\* POST /api/register, up to its first await (bcrypt.genSalt)
RegisterStart(c, body) ==
  /\ CanReceive(c)
  /\ started' = started + 1
  /\ IF Falsy(body.fullName) \/ Falsy(body.email) \/ Falsy(body.password)
     THEN calls' = [calls EXCEPT ![c] =
            Finished(@, started + 1, "register", body,
                     ErrorResponse(400, "Missing required fields"))]
     ELSE LET users == ReadUsers IN
          IF ExistsEmail(users, body.email)
          THEN calls' = [calls EXCEPT ![c] =
                 Finished(@, started + 1, "register", body,
                          ErrorResponse(409, "Email already registered"))]
          ELSE calls' = [calls EXCEPT ![c] =
                 [n |-> started + 1, op |-> "register", pc |-> "genSalt",
                  body |-> body, users |-> users, salt |-> "",
                  user |-> NoUser, resp |-> NoResponse]]
  /\ UNCHANGED <<tier, clock, file, disk, clientVars>>

\* POST /api/register, from the salt to the second await (bcrypt.hash)
RegisterSalted(c, salt) ==
  /\ tier = "server"
  /\ calls[c].op = "register"
  /\ calls[c].pc = "genSalt"
  /\ ServerUp
  /\ calls' = [calls EXCEPT ![c].pc = "hash", ![c].salt = salt]
  /\ UNCHANGED <<tier, clock, file, started, disk, clientVars>>

\* POST /api/register, from the hash to the response
RegisterFinish(c) ==
  /\ tier = "server"
  /\ calls[c].op = "register"
  /\ calls[c].pc = "hash"
  /\ ServerUp
  /\ LET call == calls[c]
         hash == BcryptHash(call.body.password, call.salt)
         user == NewUser(call.body, hash, clock)
         users == Append(call.users, user)
     IN  IF disk = "ok"
         THEN /\ file' = users
              /\ calls' = [calls EXCEPT ![c] =
                   Finished(@, call.n, "register", call.body,
                            OkResponse(user, clock))]
         ELSE /\ file' = file
              /\ \E outcome \in WriteFailures :
                   calls' = [calls EXCEPT ![c] = Thrown(@, outcome)]
  /\ UNCHANGED <<tier, clock, started, disk, clientVars>>

\* users.find(u => email matches || fullName matches), case-insensitively
LoginMatches(u, username) ==
  \/ (~Falsy(u.email) /\ ToLowerCase(u.email) = ToLowerCase(username))
  \/ (~Falsy(u.fullName) /\ ToLowerCase(u.fullName) = ToLowerCase(username))

FindUser(users, username) ==
  IF \E i \in DOMAIN users : LoginMatches(users[i], username)
  THEN users[CHOOSE i \in DOMAIN users :
               /\ LoginMatches(users[i], username)
               /\ \A j \in 1..(i - 1) : ~LoginMatches(users[j], username)]
  ELSE NoUser

\* POST /api/login, up to its await (bcrypt.compare)
LoginStart(c, body) ==
  /\ CanReceive(c)
  /\ started' = started + 1
  /\ IF Falsy(body.username) \/ Falsy(body.password)
     THEN calls' = [calls EXCEPT ![c] =
            Finished(@, started + 1, "login", body,
                     ErrorResponse(400, "Missing username or password"))]
     ELSE LET user == FindUser(ReadUsers, body.username) IN
          IF user = NoUser
          THEN calls' = [calls EXCEPT ![c] =
                 Finished(@, started + 1, "login", body,
                          ErrorResponse(401, "Invalid credentials"))]
          ELSE calls' = [calls EXCEPT ![c] =
                 [n |-> started + 1, op |-> "login", pc |-> "compare",
                  body |-> body, users |-> << >>, salt |-> "",
                  user |-> user, resp |-> NoResponse]]
  /\ UNCHANGED <<tier, clock, file, disk, clientVars>>

\* POST /api/login, from the comparison to the response
LoginFinish(c) ==
  /\ tier = "server"
  /\ calls[c].op = "login"
  /\ calls[c].pc = "compare"
  /\ ServerUp
  /\ LET call == calls[c]
         match == BcryptCompare(call.body.password,
                                OrElse(call.user.passwordHash, Empty))
     IN  calls' = [calls EXCEPT ![c] =
           Finished(@, call.n, "login", call.body,
                    IF match THEN OkResponse(call.user, clock)
                    ELSE ErrorResponse(401, "Invalid credentials"))]
  /\ UNCHANGED <<tier, clock, file, started, disk, clientVars>>

\* a map that passes the stored records on whole
PublicOnlyWhole(users) == users

\* users.map(u => ({ id: u.id, fullName: u.fullName, email: u.email }))
PublicOnly(users) ==
  [i \in DOMAIN users |->
     [id |-> users[i].id, fullName |-> users[i].fullName,
      email |-> users[i].email]]

\* GET /api/users
ListUsers(c) ==
  /\ CanReceive(c)
  /\ started' = started + 1
  /\ calls' = [calls EXCEPT ![c] =
       Finished(@, started + 1, "list", NoBody,
                [status |-> 200, json |-> PublicOnly(ReadUsers)])]
  /\ UNCHANGED <<tier, clock, file, disk, clientVars>>

\* fs calls on users.json start to throw (permissions, a full or failing disk)
DiskFails ==
  /\ tier = "server"
  /\ disk = "ok"
  /\ disk' = "down"
  /\ UNCHANGED <<tier, clock, file, calls, started, clientVars>>

\* fs calls on users.json work again
DiskRecovers ==
  /\ tier = "server"
  /\ disk = "down"
  /\ disk' = "ok"
  /\ UNCHANGED <<tier, clock, file, calls, started, clientVars>>

\* time passes
Tick ==
  /\ clock < MaxClock
  /\ clock' = clock + 1
  /\ UNCHANGED <<tier, serverVars, clientVars>>

\* ----------------------------------------------------------------- browser
EditPages == 1..MaxEditPages

AdminEmail == <<"a", "d", "m", "i", "n", "@", "l", "o", "c", "a", "l">>
SeedMemberSince == <<"2020-01">>

\* String.prototype.includes for a one-character needle
Includes(s, ch) == \E i \in DOMAIN s : s[i] = ch

\* JSON.stringify / JSON.parse of plain data: the text determines the data
JsonStringify(v) == <<"json", v>>
JsonParse(text) == text[2]

\* btoa: an encoding anyone can compute and invert
Btoa(text) == <<"base64", text>>

\* localStorage.getItem(k) is null exactly when k is no key
Has(k) == k \in DOMAIN localStorage

SetItem(ls, k, v) ==
  [x \in DOMAIN ls \cup {k} |-> IF x = k THEN v ELSE ls[x]]

\* a removal that clears the whole storage, as localStorage.clear() would
RemoveItemClear(ls, k) == [x \in {} |-> Empty]

RemoveItem(ls, k) == [x \in DOMAIN ls \ {k} |-> ls[x]]

\* obj.f of an object that may lack the property
Field(obj, f) == IF f \in DOMAIN obj THEN obj[f] ELSE Undefined

\* { ...base, ...over }
Spread(base, over) ==
  [x \in DOMAIN base \cup DOMAIN over |->
     IF x \in DOMAIN over THEN over[x] ELSE base[x]]

\* JSON.parse(localStorage.getItem('users') || '[]')
StoredUsers(ls) == IF "users" \in DOMAIN ls THEN JsonParse(ls["users"]) ELSE << >>

\* users.findIndex(pred), 0 for -1
FindIndexById(users, id) ==
  IF \E i \in DOMAIN users : users[i].id = id
  THEN CHOOSE i \in DOMAIN users :
         users[i].id = id /\ \A j \in 1..(i - 1) : users[j].id # id
  ELSE 0

FindIndexByEmail(users, email) ==
  IF \E i \in DOMAIN users : ToLowerCase(users[i].email) = ToLowerCase(email)
  THEN CHOOSE i \in DOMAIN users :
         /\ ToLowerCase(users[i].email) = ToLowerCase(email)
         /\ \A j \in 1..(i - 1) :
              ToLowerCase(users[j].email) # ToLowerCase(email)
  ELSE 0

\* the seeded account
SeedAdmin ==
  [id |-> NameAdminLower, fullName |-> NameAdminCap, email |-> AdminEmail,
   phone |-> Empty, location |-> Empty, role |-> Administrator,
   avatarUrl |-> Empty, memberSince |-> SeedMemberSince,
   password |-> NameAdminLower]

\* the login page's DOMContentLoaded handler: seed, then attach the handler
LoadLoginPage ==
  /\ tier = "browser"
  /\ ~loginPage
  /\ loginPage' = TRUE
  /\ localStorage' =
       IF ~Has("users")
       THEN SetItem(localStorage, "users", JsonStringify(<<SeedAdmin>>))
       ELSE localStorage
  /\ lastAlert' = ""
  /\ UNCHANGED <<tier, clock, serverVars, editPages, logoutShown, tokenForged>>

\* role sanitization of the login handler
Sanitized(users) ==
  [i \in DOMAIN users |->
     LET n == ToLowerCase(OrElse(users[i].fullName, Empty)) IN
     IF n # NameAdminLower /\ n # NameHartLower
     THEN [users[i] EXCEPT !.role = StandardMember]
     ELSE users[i]]

SevenDaysMs == 7 * 86400000

\* the token of the login handler
LoginToken(user, now) ==
  Btoa(JsonStringify([id |-> user.id, email |-> user.email,
                      exp |-> now + SevenDaysMs]))

\* the token of the register handler
RegisterToken(user) == Btoa(JsonStringify([id |-> user.id]))

LoginForm(identifier, password) ==
  [email |-> identifier, password |-> password]

LoginForms ==
  {LoginForm(NameAdminCap, NameAdminLower),
   LoginForm(AdminEmail, NameAdminLower),
   LoginForm(EmailAUpper, Pw),
   LoginForm(EmailA, PwBad),
   LoginForm(NameBob, Pw),
   LoginForm(Empty, Pw)}

Alert(msg) ==
  /\ lastAlert' = msg
  /\ UNCHANGED <<localStorage, loginPage, editPages, logoutShown, tokenForged>>

\* the click handler of the login page's submit button
LoginSubmit(form) ==
  /\ tier = "browser"
  /\ loginPage
  /\ LET identifier == Trim(form.email)
         password == form.password
         users == StoredUsers(localStorage)
         isAdmin == ToLowerCase(identifier) = NameAdminLower
                      \/ ToLowerCase(identifier) = AdminEmail
         idx == IF isAdmin THEN FindIndexById(users, NameAdminLower)
                ELSE FindIndexByEmail(users, identifier)
     IN  IF Falsy(identifier) \/ Falsy(password)
         THEN Alert("Please enter email and password")
         ELSE IF ~isAdmin /\ ~Includes(identifier, "@")
         THEN Alert("Please log in using your email address")
         ELSE IF idx = 0 \/ users[idx].password # password
         THEN Alert("Invalid login credentials")
         ELSE LET clean == Sanitized(users)
                  user == clean[idx]
                  ls1 == SetItem(localStorage, "users", JsonStringify(clean))
                  ls2 == SetItem(ls1, "currentUser", user.fullName)
                  ls3 == SetItem(ls2, "profileData", JsonStringify(user))
                  ls4 == SetItem(ls3, "authToken", LoginToken(user, clock))
              IN  /\ localStorage' = ls4
                  /\ loginPage' = FALSE
                  /\ tokenForged' = FALSE
                  /\ lastAlert' = ""
                  /\ UNCHANGED <<editPages, logoutShown>>
  /\ UNCHANGED <<tier, clock, serverVars>>

RegisterForm(fullName, email, role, password, confirm) ==
  [fullName |-> fullName, email |-> email, phone |-> Empty,
   location |-> Empty, role |-> role, password |-> password,
   confirm |-> confirm, avatarUrl |-> Empty]

RegisterForms ==
  {RegisterForm(NameBob, EmailAPadded, Administrator, Pw, Pw),
   RegisterForm(NameBob, EmailAUpper, StandardMember, Pw, Pw),
   RegisterForm(NameAdminCap, EmailB, Administrator, Pw, Pw),
   RegisterForm(NameBob, NameBob, StandardMember, Pw, Pw),
   RegisterForm(Empty, EmailA, StandardMember, Pw, Pw),
   RegisterForm(NameBob, Empty, StandardMember, Pw, Pw),
   RegisterForm(NameBob, EmailA, StandardMember, Empty, Empty),
   RegisterForm(NameBob, EmailA, StandardMember, Pw, PwBad)}

\* the user object of the register form
NewClientUser(fullName, email, phone, location, role, avatarUrl, password, now) ==
  [id |-> Num(now), fullName |-> fullName, email |-> email, phone |-> phone,
   location |-> location, role |-> role, avatarUrl |-> avatarUrl,
   memberSince |-> MemberSinceOf(now), password |-> password]

\* role of the register form: forced unless the name is on the allowlist
RegisterRole(fullName, role) ==
  LET normalized == ToLowerCase(fullName) IN
  IF normalized # NameAdminLower /\ normalized # NameHartLower
  THEN StandardMember ELSE role

\* the submit handler of the register form
RegisterSubmit(form) ==
  /\ tier = "browser"
  /\ Len(StoredUsers(localStorage)) < MaxUsers
  /\ LET fullName == Trim(form.fullName)
         email == Trim(form.email)
         phone == Trim(form.phone)
         location == Trim(form.location)
         users == StoredUsers(localStorage)
     IN  IF Falsy(fullName) \/ Falsy(email) \/ Falsy(form.password)
         THEN Alert("Missing required fields")
         ELSE IF form.password # form.confirm
         THEN Alert("Passwords do not match")
         ELSE IF FindIndexByEmail(users, email) # 0
         THEN Alert("Email already registered")
         ELSE LET user == NewClientUser(fullName, email, phone, location,
                                        RegisterRole(fullName, form.role),
                                        form.avatarUrl, form.password, clock)
                  ls1 == SetItem(localStorage, "users",
                                 JsonStringify(Append(users, user)))
                  ls2 == SetItem(ls1, "currentUser", user.fullName)
                  ls3 == SetItem(ls2, "profileData", JsonStringify(user))
                  ls4 == SetItem(ls3, "authToken", RegisterToken(user))
              IN  /\ localStorage' = ls4
                  /\ tokenForged' = FALSE
                  /\ lastAlert' = ""
                  /\ UNCHANGED <<loginPage, editPages, logoutShown>>
  /\ UNCHANGED <<tier, clock, serverVars>>

ClosedPage == [open |-> FALSE]

\* the edit-profile page's DOMContentLoaded handler
LoadEditPage(p) ==
  /\ tier = "browser"
  /\ ~editPages[p].open
  /\ Has("profileData")
  /\ editPages' = [editPages EXCEPT ![p] =
       [open |-> TRUE, user |-> JsonParse(localStorage["profileData"])]]
  /\ lastAlert' = ""
  /\ UNCHANGED <<tier, clock, serverVars, localStorage, loginPage, logoutShown,
                 tokenForged>>

EditForm(fullName, email, role) ==
  [fullName |-> fullName, email |-> email, phone |-> Empty,
   location |-> Empty, role |-> role, avatarUrl |-> Empty]

EditForms ==
  {EditForm(NameBob, EmailA, Administrator),
   EditForm(NameAdminCap, EmailA, Administrator),
   EditForm(Empty, EmailA, StandardMember)}

\* role locking of the edit form: kept only if the page's name or the
\* submitted name is on the allowlist
EditRole(user, fullName, role) ==
  LET originalName == ToLowerCase(OrElse(Field(user, "fullName"), Empty))
      normalizedNewName == ToLowerCase(fullName)
  IN  IF ~(originalName = NameAdminLower \/ originalName = NameHartLower
           \/ normalizedNewName = NameAdminLower
           \/ normalizedNewName = NameHartLower)
      THEN StandardMember ELSE role

\* the submit handler of the edit-profile form
EditSubmit(p, form) ==
  /\ tier = "browser"
  /\ editPages[p].open
  /\ LET user == editPages[p].user
         fullName == Trim(form.fullName)
         email == Trim(form.email)
         updatedUser ==
           Spread(user, [fullName |-> fullName, email |-> email,
                         phone |-> Trim(form.phone),
                         location |-> Trim(form.location),
                         role |-> EditRole(user, fullName, form.role),
                         avatarUrl |-> Trim(form.avatarUrl)])
         users == StoredUsers(localStorage)
         userIndex == FindIndexById(users, Field(user, "id"))
         ls1 == IF userIndex # 0
                THEN SetItem(localStorage, "users",
                       JsonStringify([users EXCEPT ![userIndex] = updatedUser]))
                ELSE localStorage
         ls2 == SetItem(ls1, "profileData", JsonStringify(updatedUser))
         ls3 == SetItem(ls2, "currentUser", fullName)
     IN  IF Falsy(fullName) \/ Falsy(email)
         THEN Alert("Please complete required fields")
         ELSE /\ localStorage' = ls3
              /\ lastAlert' = "Profile updated successfully!"
              /\ editPages' = [editPages EXCEPT ![p] = ClosedPage]
              /\ UNCHANGED <<loginPage, logoutShown, tokenForged>>
  /\ UNCHANGED <<tier, clock, serverVars>>

\* initUserMenu: the logout button is displayed iff currentUser is set
ShowsLogout(ls) ==
  "currentUser" \in DOMAIN ls /\ ~Falsy(ls["currentUser"])

\* the click handler of the remove-avatar button
RemoveAvatar(p) ==
  /\ tier = "browser"
  /\ editPages[p].open
  /\ LET user == editPages[p].user
         stored == IF Has("profileData")
                   THEN JsonParse(localStorage["profileData"])
                   ELSE [x \in {} |-> Empty]
         ls1 == SetItem(localStorage, "profileData",
                  JsonStringify(Spread(stored, [avatarUrl |-> Empty])))
         users == StoredUsers(ls1)
         idx == FindIndexById(users, Field(user, "id"))
         ls2 == IF idx # 0
                THEN SetItem(ls1, "users",
                       JsonStringify([users EXCEPT ![idx].avatarUrl = Empty]))
                ELSE ls1
     IN  /\ localStorage' = ls2
         /\ logoutShown' = (logoutShown \/ ShowsLogout(ls2))
  /\ lastAlert' = ""
  /\ UNCHANGED <<tier, clock, serverVars, loginPage, editPages, tokenForged>>

\* a page loads while a user is logged in: its navbar shows the logout button
\* (a page that loads with no currentUser shows none and changes nothing)
LoadNavbar ==
  /\ tier = "browser"
  /\ ~logoutShown
  /\ ShowsLogout(localStorage)
  /\ logoutShown' = TRUE
  /\ lastAlert' = ""
  /\ UNCHANGED <<tier, clock, serverVars, localStorage, loginPage, editPages,
                 tokenForged>>

\* the click handler of the logout button
Logout ==
  /\ tier = "browser"
  /\ logoutShown
  /\ localStorage' =
       RemoveItem(RemoveItem(RemoveItem(localStorage, "currentUser"),
                             "profileData"), "authToken")
  /\ logoutShown' = FALSE
  /\ tokenForged' = FALSE
  /\ lastAlert' = ""
  /\ UNCHANGED <<tier, clock, serverVars, loginPage, editPages>>

\* the browser's user rewrites the authToken entry: the token is base64 of
\* plain JSON, so a token naming any account id can be written by hand
ForgeToken(id) ==
  /\ tier = "browser"
  /\ Has("authToken")
  /\ localStorage["authToken"] # Btoa(JsonStringify([id |-> id]))
  /\ localStorage' =
       SetItem(localStorage, "authToken", Btoa(JsonStringify([id |-> id])))
  /\ tokenForged' = TRUE
  /\ UNCHANGED <<tier, clock, serverVars, loginPage, editPages, logoutShown,
                 lastAlert>>

\* ----------------------------------------------------------- specification
vars == <<tier, clock, serverVars, clientVars>>

Init ==
  /\ tier \in {"server", "browser"}
  /\ clock = 0
  /\ file = << >>
  /\ calls = [c \in Calls |-> IdleCall]
  /\ started = 0
  /\ disk = "ok"
  /\ localStorage = [k \in {} |-> Empty]
  /\ loginPage = FALSE
  /\ editPages = [p \in EditPages |-> ClosedPage]
  /\ logoutShown = FALSE
  /\ tokenForged = FALSE
  /\ lastAlert = ""

ServerNext ==
  \/ \E c \in Calls, body \in RegisterBodies : RegisterStart(c, body)
  \/ \E c \in Calls, salt \in Salts : RegisterSalted(c, salt)
  \/ \E c \in Calls : RegisterFinish(c)
  \/ \E c \in Calls, body \in LoginBodies : LoginStart(c, body)
  \/ \E c \in Calls : LoginFinish(c)
  \/ \E c \in Calls : ListUsers(c)
  \/ Tick

BrowserNext ==
  \/ LoadLoginPage
  \/ \E form \in LoginForms : LoginSubmit(form)
  \/ \E form \in RegisterForms : RegisterSubmit(form)
  \/ \E p \in EditPages : LoadEditPage(p)
  \/ \E p \in EditPages, form \in EditForms : EditSubmit(p, form)
  \/ \E p \in EditPages : RemoveAvatar(p)
  \/ LoadNavbar
  \/ Logout
  \/ \E id \in {NameAdminLower} : ForgeToken(id)
  \/ Tick

\* the express app while fs calls on users.json may fail and recover
FaultyNext == ServerNext \/ DiskFails \/ DiskRecovers

Next == FaultyNext \/ BrowserNext

\* either half, fs failures included
Spec == Init /\ [][Next]_vars

\* the express app alone
InitServer == Init /\ tier = "server"
SpecServer == InitServer /\ [][ServerNext]_vars

SpecFaulty == InitServer /\ [][FaultyNext]_vars

\* users.json outlives the process: the express app started over the file an
\* earlier run left, here one account registered with its email for a name
EarlierBody == RegisterBody(EmailA, EmailB, Undefined, Pw)
EarlierStore ==
  <<NewUser(EarlierBody, BcryptHash(EarlierBody.password, "s1"), 0 - 1)>>

InitRestarted ==
  /\ tier = "server"
  /\ clock = 0
  /\ file = EarlierStore
  /\ calls = [c \in Calls |-> IdleCall]
  /\ started = 0
  /\ disk = "ok"
  /\ localStorage = [k \in {} |-> Empty]
  /\ loginPage = FALSE
  /\ editPages = [p \in EditPages |-> ClosedPage]
  /\ logoutShown = FALSE
  /\ tokenForged = FALSE
  /\ lastAlert = ""

SpecRestarted == InitRestarted /\ [][ServerNext]_vars

\* the browser alone
InitBrowser == Init /\ tier = "browser"
SpecBrowser == InitBrowser /\ [][BrowserNext]_vars

\* ------------------------------------------------------------------ claims
\* the glossary's normalized form: case-folded and whitespace-trimmed
Normalize(s) == ToLowerCase(Trim(s))

\* the privileged allowlist
Privileged(name) == ToLowerCase(name) \in {NameAdminLower, NameHartLower}

RegisterOk(c) ==
  calls[c].op = "register" /\ calls[c].pc = "done" /\ calls[c].resp.status = 200

LoginOk(c) ==
  calls[c].op = "login" /\ calls[c].pc = "done" /\ calls[c].resp.status = 200

\* C1 (as claimed): of the register calls that carry the same email up to
\* letter case, at most one returns success, and users.json holds at most one
\* record for an email.
C1_OneSuccessPerEmail ==
  /\ \A c1, c2 \in Calls :
       (c1 # c2 /\ RegisterOk(c1) /\ RegisterOk(c2))
         => ToLowerCase(calls[c1].resp.user.email)
              # ToLowerCase(calls[c2].resp.user.email)
  /\ \A i, j \in DOMAIN file :
       i # j => ToLowerCase(file[i].email) # ToLowerCase(file[j].email)

\* C2 (as claimed): when the register calls that reported success carry
\* pairwise distinct emails, the account of each of them is a record of
\* users.json, whatever the other calls wrote in between.
C2_NoLostRegistration ==
  (\A c1, c2 \in Calls :
     (c1 # c2 /\ RegisterOk(c1) /\ RegisterOk(c2))
       => Normalize(calls[c1].resp.user.email)
            # Normalize(calls[c2].resp.user.email))
  => \A c \in Calls :
       RegisterOk(c) =>
         \E i \in DOMAIN file : PublicUser(file[i]) = calls[c].resp.user

\* C4 (as claimed): a register call that overlaps no other call and whose email has the normalized form of a
\* stored account's email answers 409, carries no token and leaves users.json
\* as it was.
C4_DuplicateRejected ==
  [][\A c \in Calls :
       ( /\ started' = started + 1
         /\ calls'[c].n = started'
         /\ \A d \in Calls : calls[d].pc \in {"idle", "done"}
         /\ calls'[c].op = "register"
         /\ ~Falsy(calls'[c].body.fullName)
         /\ ~Falsy(calls'[c].body.email)
         /\ ~Falsy(calls'[c].body.password)
         /\ \E i \in DOMAIN file :
              Normalize(file[i].email) = Normalize(calls'[c].body.email) )
       => ( /\ calls'[c].resp.status = 409
            /\ "token" \notin DOMAIN calls'[c].resp
            /\ file' = file )]_vars

PublicFields ==
  {"id", "fullName", "email", "phone", "location", "role", "avatarUrl",
   "memberSince"}

\* C10: no response of /api/register or /api/login, successful or failed,
\* carries a passwordHash or a password: its user has exactly the eight public
\* fields, none of them holding a stored hash or the submitted password.
C10_NoSecretInResponse ==
  \A c \in Calls :
    LET r == calls[c].resp IN
    calls[c].op \in {"register", "login"} =>
    /\ DOMAIN r \subseteq {"status", "success", "message", "user", "token", "text"}
    /\ "user" \in DOMAIN r =>
         /\ DOMAIN r.user = PublicFields
         /\ \A f \in DOMAIN r.user :
              /\ r.user[f] # calls[c].body.password
              /\ \A i \in DOMAIN file : r.user[f] # file[i].passwordHash
    /\ "token" \in DOMAIN r =>
         DOMAIN r.token.claims = {"userId", "email", "iat", "exp"}

C10_Witness ==
  \E c1, c2 \in Calls :
    /\ RegisterOk(c1) /\ "user" \in DOMAIN calls[c1].resp
    /\ LoginOk(c2) /\ "user" \in DOMAIN calls[c2].resp

ClientUsers == StoredUsers(localStorage)

\* atob and JSON.parse of a token, as any holder of the token can do
TokenPayload(token) == JsonParse(token[2])

\* a step of a profile-mutating handler: the edit form's submit or the
\* remove-avatar click
ProfileMutation ==
  \E p \in EditPages :
    \/ \E form \in EditForms : EditSubmit(p, form)
    \/ RemoveAvatar(p)

\* C3 (as claimed): in every state no two records of a user store (users.json,
\* the localStorage users collection) have emails that are equal up to letter
\* case.
C3_UniqueEmails ==
  /\ \A i, j \in DOMAIN file :
       i # j => ToLowerCase(file[i].email) # ToLowerCase(file[j].email)
  /\ \A i, j \in DOMAIN ClientUsers :
       i # j => ToLowerCase(ClientUsers[i].email) # ToLowerCase(ClientUsers[j].email)

RoleForced(u) == Privileged(Trim(u.fullName)) \/ u.role = StandardMember

\* C5 (as claimed): the record a register appends, on either half, has the
\* default role unless its normalized fullName is on the allowlist.
C5_RoleForcedAtRegister ==
  [][ /\ file' # file => RoleForced(file'[Len(file')])
      /\ (\E form \in RegisterForms : RegisterSubmit(form))
           /\ Len(StoredUsers(localStorage')) > Len(ClientUsers)
         => RoleForced(StoredUsers(localStorage')[Len(ClientUsers) + 1]) ]_vars

\* C6 (as claimed): when an edit is stored and the account's stored name or
\* its edited name is not on the allowlist, the stored role is the default.
C6_RoleLockedOnEdit ==
  [][\A p \in EditPages :
       LET idx == FindIndexById(ClientUsers, Field(editPages[p].user, "id")) IN
       ( /\ \E form \in EditForms : EditSubmit(p, form)
         /\ ~editPages'[p].open
         /\ idx # 0 )
       => LET before == ClientUsers[idx]
              after == StoredUsers(localStorage')[idx]
          IN  (~Privileged(before.fullName) \/ ~Privileged(after.fullName))
                => after.role = StandardMember]_vars

\* C7 (as claimed): a token whose contents were altered after issuance never
\* grants a mutation of any account: while the authToken entry is a rewritten
\* one, no profile-mutating handler changes the users collection.
C7_AlteredTokenRejected ==
  [][(ProfileMutation /\ tokenForged) => StoredUsers(localStorage') = ClientUsers]_vars

\* C8 (as claimed): a profile-mutating handler changes localStorage only while
\* an authToken is present, and changes only the record of the account the
\* token names (the token being one a handler issued).
C8_MutationNeedsSession ==
  [][(ProfileMutation /\ ~tokenForged /\ localStorage' # localStorage)
       => /\ Has("authToken")
          /\ \A i \in DOMAIN ClientUsers :
               StoredUsers(localStorage')[i] # ClientUsers[i]
                 => TokenPayload(localStorage["authToken"]).id = ClientUsers[i].id]_vars

\* C9 (as claimed): every token a handler issued carries the account's id and
\* email and an expiration exactly 7 days after an instant of issuance.
C9_TokenExpiresInSevenDays ==
  /\ \A c \in Calls :
       "token" \in DOMAIN calls[c].resp =>
         LET t == calls[c].resp.token.claims IN
         /\ t.userId = calls[c].resp.user.id
         /\ t.email = calls[c].resp.user.email
         /\ t.exp = t.iat + 7 * 24 * 60 * 60
  /\ (Has("authToken") /\ ~tokenForged) =>
       LET t == TokenPayload(localStorage["authToken"]) IN
       /\ DOMAIN t = {"id", "email", "exp"}
       /\ \E issuedAt \in 0..clock : t.exp = issuedAt + 7 * 86400000

\* JSON.parse(localStorage.getItem('profileData')), an empty object if absent
StoredProfile == IF Has("profileData") THEN JsonParse(localStorage["profileData"])
                 ELSE [x \in {} |-> Empty]

\* C11 (as claimed): no persisted value holds a plaintext password: no record
\* of users.json, of the users collection or of profileData has a password
\* field, and no record of users.json has a field whose value is a password a
\* call submitted; users.json holds only the bcrypt hash.
C11_NoPlaintextPersisted ==
  /\ \A i \in DOMAIN file :
       /\ "password" \notin DOMAIN file[i]
       /\ file[i].passwordHash[1] = "$2a$10$"
       /\ \A c \in Calls :
            (calls[c].op = "register" /\ ~Falsy(calls[c].body.password)) =>
              \A f \in DOMAIN file[i] : file[i][f] # calls[c].body.password
  /\ \A i \in DOMAIN ClientUsers : "password" \notin DOMAIN ClientUsers[i]
  /\ "password" \notin DOMAIN StoredProfile

\* a login handler accepted the form: it stored the session of record `user`
SessionOf(ls, user) ==
  /\ "profileData" \in DOMAIN ls
  /\ "authToken" \in DOMAIN ls
  /\ JsonParse(ls["profileData"]).id = user.id
  /\ JsonParse(ls["profileData"]).email = user.email

\* C12 (as claimed): a login whose identifier is the email of a stored account
\* A up to letter case and whose password is A's is answered from A's record,
\* whatever else the store holds: /api/login looks A up, and answers 200 with
\* A's public record once the password compares equal; the browser's login
\* handler opens A's session.
C12_LoginByEmailFindsAccount ==
  [][ /\ \A c \in Calls :
           ( /\ started' = started + 1
             /\ calls'[c].n = started'
             /\ calls'[c].op = "login"
             /\ ~Falsy(calls'[c].body.username)
             /\ ~Falsy(calls'[c].body.password) )
           => \A i \in DOMAIN file :
                ( /\ ToLowerCase(file[i].email)
                       = ToLowerCase(calls'[c].body.username)
                  /\ BcryptCompare(calls'[c].body.password,
                                   file[i].passwordHash) )
                => /\ calls'[c].pc = "compare"
                   /\ calls'[c].user = file[i]
      /\ \A c \in Calls :
           ( /\ calls[c].op = "login"
             /\ calls[c].pc = "compare"
             /\ calls'[c].pc = "done"
             /\ BcryptCompare(calls[c].body.password,
                              calls[c].user.passwordHash) )
           => /\ calls'[c].resp.status = 200
              /\ calls'[c].resp.user = PublicUser(calls[c].user)
      /\ \A form \in LoginForms :
           LoginSubmit(form) =>
             \A i \in DOMAIN ClientUsers :
               ( /\ ToLowerCase(ClientUsers[i].email) = ToLowerCase(form.email)
                 /\ ClientUsers[i].password = form.password )
               => SessionOf(localStorage', ClientUsers[i]) ]_vars

\* the one error of a failed login
InvalidCredentials == ErrorResponse(401, "Invalid credentials")

\* the identifier names record u: its email or its full name, up to case
Identifies(identifier, u) ==
  \/ ToLowerCase(u.email) = ToLowerCase(identifier)
  \/ ToLowerCase(u.fullName) = ToLowerCase(identifier)

\* C13 (as claimed): a login with an identifier that names no account and a
\* login with a wrong password for the account found fail alike: /api/login
\* answers 401 "Invalid credentials" with no token and leaves users.json as it
\* was; the browser's login handler raises the one invalid-credentials alert
\* and leaves localStorage as it was.
C13_SameInvalidCredentials ==
  [][ /\ \A c \in Calls :
           ( /\ started' = started + 1
             /\ calls'[c].n = started'
             /\ calls'[c].op = "login"
             /\ ~Falsy(calls'[c].body.username)
             /\ ~Falsy(calls'[c].body.password)
             /\ \A i \in DOMAIN file :
                  ~Identifies(calls'[c].body.username, file[i]) )
           => /\ calls'[c].pc = "done"
              /\ calls'[c].resp = InvalidCredentials
              /\ file' = file
      /\ \A c \in Calls :
           ( /\ calls[c].op = "login"
             /\ calls[c].pc = "compare"
             /\ calls'[c].pc = "done"
             /\ ~BcryptCompare(calls[c].body.password,
                               calls[c].user.passwordHash) )
           => /\ calls'[c].resp = InvalidCredentials
              /\ file' = file
      /\ \A form \in LoginForms :
           ( /\ LoginSubmit(form)
             /\ ~Falsy(Trim(form.email))
             /\ ~Falsy(form.password)
             /\ \A i \in DOMAIN ClientUsers :
                  ~( /\ Identifies(Trim(form.email), ClientUsers[i])
                     /\ ClientUsers[i].password = form.password ) )
           => /\ lastAlert' = "Invalid login credentials"
              /\ localStorage' = localStorage ]_vars

\* record u is the account the browser's register handler made of form rf
RegisteredFrom(u, rf) ==
  /\ u.id[1] = "number"
  /\ u.fullName = Trim(rf.fullName)
  /\ u.email = Trim(rf.email)
  /\ u.password = rf.password

\* C14 (as claimed): after a register that was accepted, a login with the same
\* email and password succeeds and returns the registered account: /api/login
\* looks up the account a finished /api/register call returned and answers
\* 200 with it once the password compares equal; the browser's login handler
\* opens the session of the account its register handler stored, whatever
\* string the accepted email is.
C14_RegisterThenLogin ==
  [][ /\ \A c1, c2 \in Calls :
           ( /\ RegisterOk(c1)
             /\ started' = started + 1
             /\ calls'[c2].n = started'
             /\ calls'[c2].op = "login"
             /\ calls'[c2].body.username = calls[c1].body.email
             /\ calls'[c2].body.password = calls[c1].body.password )
           => /\ calls'[c2].pc = "compare"
              /\ PublicUser(calls'[c2].user) = calls[c1].resp.user
      /\ \A c \in Calls :
           ( /\ calls[c].op = "login"
             /\ calls[c].pc = "compare"
             /\ calls'[c].pc = "done"
             /\ BcryptCompare(calls[c].body.password,
                              calls[c].user.passwordHash) )
           => /\ calls'[c].resp.status = 200
              /\ "token" \in DOMAIN calls'[c].resp
              /\ calls'[c].resp.user = PublicUser(calls[c].user)
      /\ \A form \in LoginForms, rf \in RegisterForms :
           ( /\ LoginSubmit(form)
             /\ form.email = rf.email
             /\ form.password = rf.password )
           => \A i \in DOMAIN ClientUsers :
                RegisteredFrom(ClientUsers[i], rf)
                  => SessionOf(localStorage', ClientUsers[i]) ]_vars

UniqueIds(users) ==
  \A i, j \in DOMAIN users : i # j => users[i].id # users[j].id

\* the records that stay in a store keep their ids
IdsKept(before, after) ==
  \A i \in DOMAIN before \cap DOMAIN after :
    after[i].email = before[i].email => after[i].id = before[i].id

\* C15 (as claimed): after every step no two records of users.json and no two
\* records of the users collection have the same id, also when registrations
\* read the same Date.now(), and a record that stays in a store keeps its id.
C15_UniqueImmutableIds ==
  [][ /\ UniqueIds(file')
      /\ UniqueIds(StoredUsers(localStorage'))
      /\ IdsKept(file, file')
      /\ IdsKept(ClientUsers, StoredUsers(localStorage')) ]_vars

\* the call is answered with a 5xx error and no success
StoreUnavailable(call) ==
  /\ call.pc = "done"
  /\ call.resp.status \in 500..599
  /\ "token" \notin DOMAIN call.resp

\* C16 (as claimed): a register call whose read of users.json fails, or whose
\* write of it fails, is answered with a 5xx error at that point and leaves
\* users.json as it was: it neither goes on with an empty array in place of
\* the unreadable store, nor stays unanswered, nor brings the process down.
C16_StoreFailureIsReported ==
  [][\A c \in Calls :
       /\ ( /\ started' = started + 1
            /\ calls'[c].n = started'
            /\ calls'[c].op = "register"
            /\ ~Falsy(calls'[c].body.fullName)
            /\ ~Falsy(calls'[c].body.email)
            /\ ~Falsy(calls'[c].body.password)
            /\ disk = "down" )
          => (StoreUnavailable(calls'[c]) /\ file' = file)
       /\ ( /\ calls[c].op = "register"
            /\ calls[c].pc = "hash"
            /\ calls'[c].pc # "hash"
            /\ disk = "down" )
          => (StoreUnavailable(calls'[c]) /\ file' = file)]_vars

MissingFields == ErrorResponse(400, "Missing required fields")

\* C17: a register in which fullName, email or password is absent or empty is
\* refused at once, whatever the state of the store: /api/register answers
\* 400 with no user and no token and leaves users.json as it was, the
\* browser's register handler raises the missing-fields alert and leaves
\* localStorage as it was; and no register ever stores a record with an empty
\* fullName or email.
C17_MissingFieldRefused ==
  [][ /\ \A c \in Calls :
           ( /\ started' = started + 1
             /\ calls'[c].n = started'
             /\ calls'[c].op = "register"
             /\ \/ calls'[c].body.fullName \in {Empty, Undefined}
                \/ calls'[c].body.email \in {Empty, Undefined}
                \/ calls'[c].body.password \in {Empty, Undefined} )
           => /\ calls'[c].pc = "done"
              /\ calls'[c].resp = MissingFields
              /\ file' = file
      /\ \A i \in DOMAIN file' :
           file'[i].fullName \notin {Empty, Undefined}
             /\ file'[i].email \notin {Empty, Undefined}
      /\ \A form \in RegisterForms :
           ( /\ RegisterSubmit(form)
             /\ \/ form.fullName = Empty
                \/ form.email = Empty
                \/ form.password = Empty )
           => /\ localStorage' = localStorage
              /\ lastAlert' = "Missing required fields"
      /\ \A i \in DOMAIN StoredUsers(localStorage') :
           StoredUsers(localStorage')[i].fullName # Empty
             /\ StoredUsers(localStorage')[i].email # Empty ]_vars

\* a register with an empty field was refused by /api/register while the
\* store held an account
C17_Witness ==
  \E c \in Calls :
    /\ calls[c].op = "register"
    /\ calls[c].pc = "done"
    /\ calls[c].body.fullName = Empty
    /\ calls[c].resp.status = 400
    /\ file # << >>

\* record u is the account an edit-profile page was opened for
PageAccount(p, u) ==
  /\ u.id = Field(editPages[p].user, "id")
  /\ u.email = Field(editPages[p].user, "email")

\* C18 (as claimed): a profile edit (form submit or avatar removal) keeps the
\* number and order of the records, keeps the id, memberSince and password of
\* every record, and changes no record other than the one of the account the
\* page was opened for.
C18_EditFrame ==
  [][\A p \in EditPages :
       ((\E form \in EditForms : EditSubmit(p, form)) \/ RemoveAvatar(p))
       => LET after == StoredUsers(localStorage') IN
          /\ DOMAIN after = DOMAIN ClientUsers
          /\ \A i \in DOMAIN ClientUsers :
               /\ after[i].id = ClientUsers[i].id
               /\ after[i].memberSince = ClientUsers[i].memberSince
               /\ after[i].password = ClientUsers[i].password
               /\ ~PageAccount(p, ClientUsers[i]) => after[i] = ClientUsers[i]]_vars

SessionKeys == {"currentUser", "profileData", "authToken"}

\* C19: the logout click removes the three session entries and nothing else:
\* every other entry of localStorage, the users collection among them, is
\* there afterwards with the value it had, so no account record is deleted or
\* modified.
C19_LogoutKeepsAccounts ==
  [][Logout =>
       /\ DOMAIN localStorage' = DOMAIN localStorage \ SessionKeys
       /\ \A k \in DOMAIN localStorage \ SessionKeys :
            localStorage'[k] = localStorage[k]
       /\ StoredUsers(localStorage') = ClientUsers]_vars

\* a registered account is stored and no session entry is: only the logout
\* click after a register leads here
C19_Witness ==
  /\ \E i \in DOMAIN ClientUsers : ClientUsers[i].id[1] = "number"
  /\ DOMAIN localStorage \cap SessionKeys = {}
  /\ ~logoutShown

C21_SessionEntriesAgree ==
  (Has("authToken") /\ Has("profileData") /\ ~tokenForged)
    => /\ TokenPayload(localStorage["authToken"]).id = Field(StoredProfile, "id")
       /\ Has("currentUser")
       /\ localStorage["currentUser"] = Field(StoredProfile, "fullName")

\* C22 (as claimed): in every state currentUser, profileData and authToken are
\* all stored or all absent, whatever handlers ran and in whatever order.
C22_SessionAllOrNone ==
  \/ DOMAIN localStorage \cap SessionKeys = {}
  \/ SessionKeys \subseteq DOMAIN localStorage

\* every record with a role other than the default has a privileged name
RolesEarned(users) ==
  \A i \in DOMAIN users :
    users[i].role # StandardMember => Privileged(users[i].fullName)

\* the login handler accepted the form in this step
LoginAccepted ==
  /\ \E form \in LoginForms : LoginSubmit(form)
  /\ loginPage /\ ~loginPage'

\* C23 (as claimed): after every step every record of the users collection
\* with a role other than 'Standard Member' has the lowercase fullName 'admin'
\* or 'hart', an edit that renames a privileged account included; and a
\* successful login writes a profileData whose role is the role of that
\* account's stored record.
C23_RolesFollowNames ==
  [][ /\ RolesEarned(StoredUsers(localStorage'))
      /\ LoginAccepted =>
           \E i \in DOMAIN StoredUsers(localStorage') :
             LET u == StoredUsers(localStorage')[i]
                 profile == JsonParse(localStorage'["profileData"])
             IN  u.id = profile.id /\ u.email = profile.email
                   /\ u.role = profile.role ]_vars

\* the users collection holds the account the identifiers 'admin' and
\* 'admin@local' are looked up as
HasSeed(users) == FindIndexById(users, NameAdminLower) # 0

\* C24 (as claimed): once the login page has initialised, the users collection
\* holds the account with id 'admin', whatever ran before, and every later
\* step keeps it.
C24_SeedPresent ==
  [][(LoadLoginPage \/ HasSeed(ClientUsers))
       => HasSeed(StoredUsers(localStorage'))]_vars

====
